---- MODULE Spec2Model ----
(***************************************************************************)
(* A model of app.py of hg-taiwanese-tts: the bounded, newest-first        *)
(* history log kept in data/history.json, the handlers that read and write *)
(* it (handle_tts, load_history_item, refresh_history) and what they show. *)
(*                                                                         *)
(* A Python str is a sequence of characters; a character is a one-element  *)
(* TLA+ string naming one code point.  A dict with fixed keys is a record. *)
(***************************************************************************)
EXTENDS Integers, Sequences, FiniteSets, TLC

VARIABLES
    fs,        \* the storage: is data/ there, and the document at HISTORY_PATH
    disp,      \* the six output components of the page
    clock,     \* the UTC clock read by _now_iso
    nAppend,   \* history: the number of submits that ran to their end
    wiped,     \* history: a save has failed or been cut after truncating the file
    departed,  \* history: the records that were in the stored log and left it
    lastOp,    \* history: the last handler that ran and how it ended
    pc,        \* the position of the submit in flight (step-level specification)
    pending,   \* the history list the submit in flight is saving
    pv         \* the preview workbench: a text and what is rendered from it

vars == <<fs, disp, clock, nAppend, wiped, departed, lastOp, pc, pending, pv>>

(***************************************************************************)
(* Characters and strings.                                                 *)
(***************************************************************************)

\* str.split() and str.strip() with no argument cut at these.
Whitespace == {" ", "\t", "\n"}

\* A lone surrogate code point (U+D800): a str may hold it, UTF-8 cannot.
Surrogate == "<U+D800>"

Min(a, b) == IF a <= b THEN a ELSE b

\* s[:n] for n >= 0
Take(s, n) == SubSeq(s, 1, Min(n, Len(s)))

RECURSIVE LStrip(_)
LStrip(s) ==
    IF s # <<>> /\ Head(s) \in Whitespace THEN LStrip(Tail(s)) ELSE s

RECURSIVE RStrip(_)
RStrip(s) ==
    IF s # <<>> /\ s[Len(s)] \in Whitespace
    THEN RStrip(SubSeq(s, 1, Len(s) - 1))
    ELSE s

\* text.strip()
Strip(s) == LStrip(RStrip(s))

\* text.split(): the maximal runs of non-whitespace characters, in order.
RECURSIVE SplitFrom(_, _, _)
SplitFrom(s, word, acc) ==
    IF s = <<>>
    THEN IF word = <<>> THEN acc ELSE Append(acc, word)
    ELSE IF Head(s) \in Whitespace
         THEN SplitFrom(Tail(s), <<>>,
                        IF word = <<>> THEN acc ELSE Append(acc, word))
         ELSE SplitFrom(Tail(s), Append(word, Head(s)), acc)

Split(s) == SplitFrom(s, <<>>, <<>>)

\* " ".join(words)
RECURSIVE JoinSpace(_)
JoinSpace(words) ==
    IF words = <<>> THEN <<>>
    ELSE IF Len(words) = 1 THEN words[1]
    ELSE words[1] \o <<" ">> \o JoinSpace(Tail(words))

PREVIEW_LIMIT == 48

FormatPreviewCutsAtLimit(text, limit) ==
    LET preview == JoinSpace(Split(text))
    IN  IF Len(preview) > limit THEN Take(preview, limit) ELSE preview

\* _format_preview(text, limit=48)
FormatPreview(text, limit) ==
    LET preview == JoinSpace(Split(text))
    IN  IF Len(preview) > limit
        THEN Take(preview, limit - 3) \o <<".", ".", ".">>
        ELSE preview

(***************************************************************************)
(* json.dumps / json.loads, as far as a history list exercises them: a     *)
(* list of dicts whose values are strings.  A string is written between    *)
(* quotes with the quote, the backslash and the control characters         *)
(* escaped (ensure_ascii=False leaves every other character as it is).     *)
(***************************************************************************)

JsonEscapeChar(c) ==
    IF c = "\"" THEN <<"\\", "\"">>
    ELSE IF c = "\\" THEN <<"\\", "\\">>
    ELSE IF c = "\n" THEN <<"\\", "n">>
    ELSE IF c = "\t" THEN <<"\\", "t">>
    ELSE <<c>>

RECURSIVE JsonEscape(_)
JsonEscape(s) ==
    IF s = <<>> THEN <<>> ELSE JsonEscapeChar(Head(s)) \o JsonEscape(Tail(s))

\* The string literal json.dumps writes for s, quotes included.
JsonString(s) == <<"\"">> \o JsonEscape(s) \o <<"\"">>

\* The scanner of json.loads inside a string literal: lit is what follows the
\* opening quote.  It reads to the first unescaped quote; [ok, val, rest].
RECURSIVE JsonScan(_, _)
JsonScan(lit, acc) ==
    IF lit = <<>> THEN [ok |-> FALSE, val |-> acc, rest |-> <<>>]
    ELSE IF Head(lit) = "\""
         THEN [ok |-> TRUE, val |-> acc, rest |-> Tail(lit)]
    ELSE IF Head(lit) \in {"\n", "\t"}
         THEN [ok |-> FALSE, val |-> acc, rest |-> lit]
    ELSE IF Head(lit) = "\\"
         THEN IF Len(lit) < 2 THEN [ok |-> FALSE, val |-> acc, rest |-> <<>>]
              ELSE IF lit[2] = "\"" THEN JsonScan(Tail(Tail(lit)), Append(acc, "\""))
              ELSE IF lit[2] = "\\" THEN JsonScan(Tail(Tail(lit)), Append(acc, "\\"))
              ELSE IF lit[2] = "n" THEN JsonScan(Tail(Tail(lit)), Append(acc, "\n"))
              ELSE IF lit[2] = "t" THEN JsonScan(Tail(Tail(lit)), Append(acc, "\t"))
              ELSE [ok |-> FALSE, val |-> acc, rest |-> lit]
    ELSE JsonScan(Tail(lit), Append(acc, Head(lit)))

\* json.loads of one string literal: [ok, val]; ok only if the literal is
\* one whole string and nothing else.
JsonParseString(lit) ==
    IF lit = <<>> \/ Head(lit) # "\""
    THEN [ok |-> FALSE, val |-> <<>>]
    ELSE LET r == JsonScan(Tail(lit), <<>>)
         IN  [ok |-> r.ok /\ r.rest = <<>>, val |-> r.val]

\* One dict of the list, as written: every value as its string literal.
DumpEntry(entry) == [k \in DOMAIN entry |-> JsonString(entry[k])]

\* json.dumps(entries, ensure_ascii=False, indent=2): the items in order.
Dumps(entries) == [i \in 1..Len(entries) |-> DumpEntry(entries[i])]

ParsesEntry(item) == \A k \in DOMAIN item : JsonParseString(item[k]).ok

LoadEntryKeepsEscapes(item) ==
    [k \in DOMAIN item |-> SubSeq(item[k], 2, Len(item[k]) - 1)]

LoadEntry(item) == [k \in DOMAIN item |-> JsonParseString(item[k]).val]

\* The text can be encoded as UTF-8: it holds no lone surrogate.
Utf8Encodable(items) ==
    \A i \in 1..Len(items) : \A k \in DOMAIN items[i] :
        \A j \in 1..Len(items[i][k]) : items[i][k][j] # Surrogate

(***************************************************************************)
(* The storage.  fs.dir: the directory data/ exists.  fs.doc: what is at   *)
(* HISTORY_PATH,                                                           *)
(*   kind "absent"       nothing;                                          *)
(*   kind "list"         a JSON array, items its elements as written;      *)
(*   kind "other"        valid JSON that is not an array (null, a number); *)
(*   kind "unparseable"  text json.loads rejects: an empty or cut file     *)
(*                       (items: the elements written before the cut),     *)
(*                       or anything else that is not JSON;                *)
(*   kind "unreadable"   something that exists and cannot be opened.       *)
(***************************************************************************)

AbsentDoc == [kind |-> "absent", items |-> <<>>]
EmptyFile == [kind |-> "unparseable", items |-> <<>>]
ListDoc(items) == [kind |-> "list", items |-> items]

\* A Python value a handler holds for the history: a list, or not a list.
PyList(entries) == [list |-> TRUE, entries |-> entries]
PyOther == [list |-> FALSE, entries |-> <<>>]

\* _load_history(): whatever json.loads makes of the document; [] when the
\* path does not exist or reading or parsing raises.
LoadHistory(f) ==
    IF f.doc.kind # "absent"
    THEN IF f.doc.kind = "list"
            /\ \A i \in 1..Len(f.doc.items) : ParsesEntry(f.doc.items[i])
         THEN PyList([i \in 1..Len(f.doc.items) |-> LoadEntry(f.doc.items[i])])
         ELSE IF f.doc.kind = "other" THEN PyOther
         ELSE PyList(<<>>)
    ELSE PyList(<<>>)

\* The log a reader sees: the list _load_history returns.
Log(f) == LoadHistory(f).entries

\* HISTORY_PATH.parent.mkdir(parents=True, exist_ok=True)
Mkdir(f) == [f EXCEPT !.dir = TRUE]

\* open(HISTORY_PATH, "w") inside write_text: it raises when the directory is
\* missing or the path cannot be opened, and otherwise leaves an empty file.
CanOpen(f) == f.dir /\ f.doc.kind # "unreadable"

OpenTruncate(f) == [f EXCEPT !.doc = EmptyFile]

\* f.write(data) and the close: the whole text, once it has been encoded.
WriteAll(f, items) == [f EXCEPT !.doc = ListDoc(items)]

\* _save_history(entries), run to its end: [fs, raised].
SaveHistory(f, entries) ==
    LET items == Dumps(entries)
        made  == Mkdir(f)
    IN  IF ~CanOpen(made) THEN [fs |-> made, raised |-> TRUE]
        ELSE IF ~Utf8Encodable(items)
             THEN [fs |-> OpenTruncate(made), raised |-> TRUE]
        ELSE [fs |-> WriteAll(OpenTruncate(made), items), raised |-> FALSE]

\* The records of a list, and those of the log stored in f that the log
\* stored in g no longer has.
Records(entries) == {entries[i] : i \in 1..Len(entries)}

Left(f, g) ==
    IF f.doc = g.doc THEN {}
    ELSE UNION { Records(old) \ Records(new) : old \in {Log(f)}, new \in {Log(g)} }

MAX_HISTORY == 50

(***************************************************************************)
(* Records, labels and rows.                                               *)
(***************************************************************************)

Digit == <<"0", "1", "2", "3", "4", "5", "6", "7", "8", "9">>

\* str(n) for n >= 0
RECURSIVE IntStr(_)
IntStr(n) == IF n < 10 THEN <<Digit[n + 1]>> ELSE IntStr(n \div 10) \o <<Digit[(n % 10) + 1]>>

DigitValue(c) == CHOOSE d \in 0..9 : Digit[d + 1] = c

IsDigit(c) == \E d \in 0..9 : Digit[d + 1] = c

\* The digits of an int literal, single underscores allowed between digits.
RECURSIVE DigitsValue(_, _, _)
DigitsValue(s, acc, afterDigit) ==
    IF s = <<>> THEN [ok |-> afterDigit, val |-> acc]
    ELSE IF IsDigit(Head(s))
         THEN DigitsValue(Tail(s), 10 * acc + DigitValue(Head(s)), TRUE)
    ELSE IF Head(s) = "_" /\ afterDigit
         THEN DigitsValue(Tail(s), acc, FALSE)
    ELSE [ok |-> FALSE, val |-> 0]

\* int(s): [ok, val]; not ok is ValueError.
ParseInt(s) ==
    LET t    == Strip(s)
        neg  == t # <<>> /\ Head(t) = "-"
        body == IF t # <<>> /\ Head(t) \in {"-", "+"} THEN Tail(t) ELSE t
        r    == DigitsValue(body, 0, FALSE)
    IN  [ok |-> r.ok, val |-> IF neg THEN 0 - r.val ELSE r.val]

\* The text of the n-th reading of the clock (datetime.isoformat).
IsoTime(n) == <<"t">> \o IntStr(n)

\* _now_iso()
NowIso(now) == IsoTime(now)

MiddleDot == "<U+00B7>"

RECURSIVE BeforeLastBar(_)
BeforeLastBar(s) ==
    IF \A i \in 1..Len(s) : s[i] # "|" THEN <<>>
    ELSE IF \A i \in 2..Len(s) : s[i] # "|" THEN <<>>
    ELSE <<Head(s)>> \o BeforeLastBar(Tail(s))

\* selection.split("|", 1)[0]
RECURSIVE BeforeBar(_)
BeforeBar(s) ==
    IF s = <<>> \/ Head(s) = "|" THEN <<>> ELSE <<Head(s)>> \o BeforeBar(Tail(s))

\* One label of _history_options: f"{idx}|{time} · {model} · {preview}"
OptionLabel(idx, entry) ==
    IntStr(idx) \o <<"|">> \o entry.time \o <<" ", MiddleDot, " ">>
        \o entry.model \o <<" ", MiddleDot, " ">>
        \o FormatPreview(entry.text, PREVIEW_LIMIT)

\* _history_options(entries): enumerate counts from 0.
HistoryOptions(entries) ==
    [i \in 1..Len(entries) |-> OptionLabel(i - 1, entries[i])]

\* One row of _history_table.
TableRow(entry) ==
    [time |-> entry.time, model |-> entry.model,
     text |-> FormatPreview(entry.text, PREVIEW_LIMIT),
     audio_url |-> entry.audio_url]

\* _history_table(entries)
HistoryTable(entries) == [i \in 1..Len(entries) |-> TableRow(entries[i])]

(***************************************************************************)
(* Optional values (None or a value) and what a handler returns for one    *)
(* output component: a value (None included), or gr.update(...).           *)
(***************************************************************************)

None == [some |-> FALSE, val |-> <<>>]
Some(x) == [some |-> TRUE, val |-> x]

\* Python truth of an optional string: neither None nor "".
Truthy(o) == o.some /\ o.val # <<>>

\* data.get(key, default) on an optional field of the response
GetOr(o, default) == IF o.some THEN o.val ELSE default

Keep == [op |-> "keep", val |-> None]           \* gr.update()
SetTo(o) == [op |-> "set", val |-> o]           \* a value, or gr.update(value=o)

KeepChoices == [set |-> FALSE, val |-> <<>>]
SetChoices(c) == [set |-> TRUE, val |-> c]

Apply(old, upd) == IF upd.op = "set" THEN upd.val ELSE old

\* The page after a handler's return value is put into its outputs.
ApplyOutputs(d, out) ==
    [audio   |-> Apply(d.audio, out.audio),
     message |-> Apply(d.message, out.message),
     tailuo  |-> Apply(d.tailuo, out.tailuo),
     ipa     |-> Apply(d.ipa, out.ipa),
     choices |-> IF out.choices.set THEN out.choices.val ELSE d.choices,
     value   |-> Apply(d.value, out.value),
     table   |-> IF out.table.set THEN out.table.val ELSE d.table]

\* What a handler that raised leaves: every output as it was.
NoOutputs ==
    [audio |-> Keep, message |-> Keep, tailuo |-> Keep, ipa |-> Keep,
     choices |-> KeepChoices, value |-> Keep, table |-> KeepChoices]

(***************************************************************************)
(* The synthesis call.  A response is                                      *)
(*   kind "http_error" | "conn_error" | "not_json": requests raised;       *)
(*   kind "json_other": a JSON body that is not an object;                 *)
(*   kind "json": an object, data its fields, each there or not.           *)
(***************************************************************************)

NoData ==
    [converted_audio_url |-> None, audio_url |-> None,
     message |-> None, tailuo |-> None, ipa |-> None]

\* data.get("converted_audio_url") or data.get("audio_url")
AudioUrlOf(data) ==
    IF Truthy(data.converted_audio_url) THEN data.converted_audio_url
    ELSE data.audio_url

FetchTtsAcceptsEmptyUrl(resp) ==
    IF resp.kind # "json"
    THEN [raised |-> TRUE, audio_url |-> <<>>, data |-> NoData]
    ELSE [raised |-> FALSE,
          audio_url |-> GetOr(AudioUrlOf(resp.data), <<>>), data |-> resp.data]

\* fetch_tts(text, model): [raised, audio_url, data]
FetchTts(resp) ==
    IF resp.kind # "json"
    THEN [raised |-> TRUE, audio_url |-> <<>>, data |-> NoData]
    ELSE LET audio_url == AudioUrlOf(resp.data)
         IN  IF ~Truthy(audio_url)
             THEN [raised |-> TRUE, audio_url |-> <<>>, data |-> resp.data]
             ELSE [raised |-> FALSE, audio_url |-> audio_url.val, data |-> resp.data]

NoEntry ==
    [text |-> <<>>, model |-> <<>>, audio_url |-> <<>>, message |-> <<>>,
     tailuo |-> <<>>, ipa |-> <<>>, time |-> <<>>]

\* new_entry of handle_tts
NewEntry(text, model, audio_url, data, now) ==
    [text |-> text, model |-> model, audio_url |-> audio_url,
     message |-> GetOr(data.message, <<>>),
     tailuo |-> GetOr(data.tailuo, <<>>),
     ipa |-> GetOr(data.ipa, <<>>),
     time |-> NowIso(now)]

PrependKeepsAll(new_entry, history) == <<new_entry>> \o history

PrependDropsNewest(new_entry, history) ==
    <<new_entry>> \o SubSeq(history, 2, Min(Len(history), MAX_HISTORY))

PrependAtEnd(new_entry, history) ==
    Take(history, MAX_HISTORY - 1) \o <<new_entry>>

\* [new_entry] + history[: MAX_HISTORY - 1]
Prepend(new_entry, history) == <<new_entry>> \o Take(history, MAX_HISTORY - 1)

\* The default of data.get("message", ...) in what handle_tts returns.
DoneMessage == <<"<U+5B8C>", "<U+6210>">>

Raised(f, stage, entry) ==
    [raised |-> TRUE, fs |-> f, stage |-> stage, entry |-> entry, out |-> NoOutputs]

\* The tuple handle_tts returns (lines 109-119).
SubmitOutputs(fetched, history) ==
    LET options == HistoryOptions(history)
    IN  [audio   |-> SetTo(Some(fetched.audio_url)),
         message |-> SetTo(Some(GetOr(fetched.data.message, DoneMessage))),
         tailuo  |-> SetTo(Some(GetOr(fetched.data.tailuo, <<>>))),
         ipa     |-> SetTo(Some(GetOr(fetched.data.ipa, <<>>))),
         choices |-> SetChoices(options),
         value   |-> SetTo(IF options # <<>> THEN Some(options[1]) ELSE None),
         table   |-> SetChoices(HistoryTable(history))]

Saved(saved, new_entry, fetched, history) ==
    IF saved.raised THEN Raised(saved.fs, "save", new_entry)
    ELSE [raised |-> FALSE, fs |-> saved.fs, stage |-> "done",
          entry |-> new_entry, out |-> SubmitOutputs(fetched, history)]

Loaded(f, loaded, new_entry, fetched) ==
    IF ~loaded.list THEN Raised(f, "load", new_entry)
    ELSE Saved(SaveHistory(f, Prepend(new_entry, loaded.entries)), new_entry,
               fetched, Prepend(new_entry, loaded.entries))

Fetched(f, text, model, fetched, now) ==
    IF fetched.raised THEN Raised(f, "fetch", NoEntry)
    ELSE Loaded(f, LoadHistory(f),
                NewEntry(text, model, fetched.audio_url, fetched.data, now),
                fetched)

HandleTtsNoStrip(rawText, model, resp, f, now) ==
    IF rawText = <<>> THEN Raised(f, "blank", NoEntry)
    ELSE Fetched(f, rawText, model, FetchTts(resp), now)

\* handle_tts(text, model) on response resp, storage f and clock reading now:
\* [raised, fs, stage, entry, out].  stage tells how far it came:
\* "blank", "fetch" (fetch_tts raised), "load" (the history is no list),
\* "save" (_save_history raised), "done".
HandleTts(rawText, model, resp, f, now) ==
    IF Strip(rawText) = <<>> THEN Raised(f, "blank", NoEntry)
    ELSE Fetched(f, Strip(rawText), model, FetchTts(resp), now)

\* history[idx] of Python: a negative idx counts from the end.
PyIndex(history, idx) ==
    IF idx < 0 THEN history[Len(history) + idx + 1] ELSE history[idx + 1]

LookupNoLowerBound(history, idx) ==
    IF idx >= Len(history) \/ 0 - idx > Len(history)
    THEN [found |-> FALSE, entry |-> NoEntry]
    ELSE [found |-> TRUE, entry |-> PyIndex(history, idx)]

\* The index resolution of load_history_item: [found, entry]
Lookup(history, idx) ==
    IF idx < 0 \/ idx >= Len(history)
    THEN [found |-> FALSE, entry |-> NoEntry]
    ELSE [found |-> TRUE, entry |-> PyIndex(history, idx)]

NotFoundOutputsKeepAll(table) ==
    [audio |-> Keep, message |-> Keep, tailuo |-> Keep, ipa |-> Keep,
     choices |-> KeepChoices, value |-> Keep, table |-> SetChoices(table)]

\* What load_history_item returns when it finds nothing.
NotFoundOutputs(table) ==
    [audio |-> SetTo(None), message |-> Keep, tailuo |-> Keep, ipa |-> Keep,
     choices |-> KeepChoices, value |-> SetTo(None), table |-> SetChoices(table)]

\* load_history_item(selection): [raised, found, idx, out].  selection is
\* None or a string.
LoadHistoryItem(selection, f) ==
    LET loaded == LoadHistory(f)
        parsed == ParseInt(BeforeBar(selection.val))
        hit    == Lookup(loaded.entries, parsed.val)
    IN  IF ~loaded.list
        THEN [raised |-> TRUE, found |-> FALSE, idx |-> 0, out |-> NoOutputs]
        ELSE IF ~Truthy(selection) \/ ~parsed.ok \/ ~hit.found
        THEN [raised |-> FALSE, found |-> FALSE,
              idx |-> IF Truthy(selection) /\ parsed.ok THEN parsed.val ELSE 0,
              out |-> NotFoundOutputs(HistoryTable(loaded.entries))]
        ELSE [raised |-> FALSE, found |-> TRUE, idx |-> parsed.val,
              out |->
                [audio   |-> SetTo(Some(hit.entry.audio_url)),
                 message |-> SetTo(Some(hit.entry.message)),
                 tailuo  |-> SetTo(Some(hit.entry.tailuo)),
                 ipa     |-> SetTo(Some(hit.entry.ipa)),
                 choices |-> SetChoices(HistoryOptions(loaded.entries)),
                 value   |-> SetTo(selection),
                 table   |-> SetChoices(HistoryTable(loaded.entries))]]

\* refresh_history(): [raised, out]
RefreshHistory(f) ==
    LET loaded  == LoadHistory(f)
        options == HistoryOptions(loaded.entries)
    IN  IF ~loaded.list THEN [raised |-> TRUE, out |-> NoOutputs]
        ELSE [raised |-> FALSE,
              out |-> [NoOutputs EXCEPT
                         !.choices = SetChoices(options),
                         !.value = SetTo(IF options # <<>> THEN Some(options[1]) ELSE None),
                         !.table = SetChoices(HistoryTable(loaded.entries))]]

\* history_selector.change: the page runs load_history_item whenever the
\* selector's value has changed, the user's doing or a handler's.  before is
\* the value the selector had; the listener's own outputs can change the value
\* once more (to None), and then it runs once more and changes nothing.
OnChange(d, f) ==
    LET r == LoadHistoryItem(d.value, f)
    IN  IF r.raised THEN d ELSE ApplyOutputs(d, r.out)

AfterOutputs(before, d, f) ==
    IF d.value = before THEN d
    ELSE LET d1 == OnChange(d, f)
         IN  IF d1.value = d.value THEN d1 ELSE OnChange(d1, f)

(***************************************************************************)
(* The state after the module has been loaded: the page is built from the  *)
(* stored history (lines 196-211), nothing is shown in the outputs.        *)
(***************************************************************************)

StartupPage(f) ==
    [audio |-> None, message |-> None, tailuo |-> None, ipa |-> None,
     choices |-> HistoryOptions(Log(f)), value |-> None,
     table |-> HistoryTable(Log(f))]

\* lastOp: op the handler, ok whether it did what it was asked, stage how far
\* it came, pre the kind of document it found, and its inputs (sel, resp,
\* blank: the text given is empty once stripped, arg: the list given to a
\* save) and results (idx, entry, old: the log it loaded).
NoOp == [op |-> "init", ok |-> TRUE, stage |-> "", pre |-> "absent", idx |-> 0,
         sel |-> None, resp |-> "", nourl |-> FALSE, blank |-> FALSE,
         entry |-> NoEntry, arg |-> <<>>, old |-> <<>>]

NoPreview == [text |-> <<>>, done |-> FALSE, preview |-> <<>>,
              label |-> <<>>, row |-> TableRow(NoEntry)]

NoPending == [history |-> <<>>, old |-> <<>>, out |-> NoOutputs]

Init ==
    /\ fs \in {[dir |-> d, doc |-> AbsentDoc] : d \in BOOLEAN}
    /\ disp = StartupPage(fs)
    /\ clock = 1
    /\ nAppend = 0
    /\ wiped = FALSE
    /\ departed = {}
    /\ lastOp = NoOp
    /\ pc = "idle"
    /\ pending = NoPending
    /\ pv = NoPreview

(***************************************************************************)
(* The handlers, each run to its end (section 5: one action at a time).    *)
(***************************************************************************)

\* The submit button: handle_tts, its outputs, and the selector's listener.
Submit(rawText, model, resp) ==
    \E r \in {HandleTts(rawText, model, resp, fs, clock)} :
        /\ pc = "idle"
        /\ fs' = r.fs
        /\ disp' = IF r.raised THEN disp
                   ELSE AfterOutputs(disp.value, ApplyOutputs(disp, r.out), r.fs)
        /\ clock' = IF r.stage \in {"load", "save", "done"} THEN clock + 1 ELSE clock
        /\ nAppend' = IF r.raised THEN nAppend ELSE nAppend + 1
        /\ wiped' = (wiped \/ (r.raised /\ r.fs.doc # fs.doc))
        /\ lastOp' = [NoOp EXCEPT !.op = "submit", !.ok = ~r.raised,
                                  !.stage = r.stage, !.pre = fs.doc.kind,
                                  !.resp = resp.kind,
                                  !.nourl = ~Truthy(resp.data.converted_audio_url)
                                            /\ ~Truthy(resp.data.audio_url),
                                  !.blank = (Strip(rawText) = <<>>),
                                  !.entry = r.entry]
        /\ departed' = departed \cup Left(fs, r.fs)
        /\ UNCHANGED <<pc, pending, pv>>

\* The user picks another value in the selector (or clears it): the listener
\* load_history_item runs on it.
Select(selection) ==
    \E r \in {LoadHistoryItem(selection, fs)} :
    LET shown == [disp EXCEPT !.value = selection]
    IN  /\ selection # disp.value
        /\ disp' = IF r.raised THEN shown
                   ELSE AfterOutputs(selection, ApplyOutputs(shown, r.out), fs)
        /\ lastOp' = [NoOp EXCEPT !.op = "select", !.ok = r.found,
                                  !.stage = IF r.raised THEN "load" ELSE "done",
                                  !.pre = fs.doc.kind,
                                  !.idx = r.idx, !.sel = selection]
        /\ UNCHANGED <<fs, departed, clock, nAppend, wiped, pc, pending, pv>>

RefreshSavesBack ==
    \E r \in {RefreshHistory(fs)} :
        /\ fs' = SaveHistory(fs, Log(fs)).fs
        /\ departed' = departed \cup Left(fs, fs')
        /\ disp' = IF r.raised THEN disp
                   ELSE AfterOutputs(disp.value, ApplyOutputs(disp, r.out), fs)
        /\ lastOp' = [NoOp EXCEPT !.op = "refresh", !.ok = ~r.raised,
                                  !.pre = fs.doc.kind,
                                  !.stage = IF r.raised THEN "load" ELSE "done"]
        /\ UNCHANGED <<clock, nAppend, wiped, pc, pending, pv>>

\* The refresh button: refresh_history, its outputs, the selector's listener.
Refresh ==
    \E r \in {RefreshHistory(fs)} :
        /\ disp' = IF r.raised THEN disp
                   ELSE AfterOutputs(disp.value, ApplyOutputs(disp, r.out), fs)
        /\ lastOp' = [NoOp EXCEPT !.op = "refresh", !.ok = ~r.raised,
                                  !.pre = fs.doc.kind,
                                  !.stage = IF r.raised THEN "load" ELSE "done"]
        /\ UNCHANGED <<fs, departed, clock, nAppend, wiped, pc, pending, pv>>

(***************************************************************************)
(* Inputs.                                                                 *)
(***************************************************************************)

\* model_input offers one choice (line 185).
Model6 == <<"m", "o", "d", "e", "l", "6">>

Url1 == <<"u", "1">>
Url2 == <<"u", "2">>

Failure(kind) == [kind |-> kind, data |-> NoData]
Json(data) == [kind |-> "json", data |-> data]

Responses ==
    { Failure("http_error"), Failure("conn_error"), Failure("not_json"),
      Failure("json_other"),
      Json(NoData),
      Json([NoData EXCEPT !.converted_audio_url = Some(<<>>),
                          !.audio_url = Some(<<>>)]),
      Json([NoData EXCEPT !.converted_audio_url = Some(Url1)]),
      Json([NoData EXCEPT !.converted_audio_url = Some(<<>>),
                          !.audio_url = Some(Url2),
                          !.message = Some(<<"o", "k">>),
                          !.tailuo = Some(<<"t", "\"">>),
                          !.ipa = Some(<<"\\">>)]) }

RawTexts ==
    { <<>>, <<" ", "\n">>, <<" ", "b", " ", " ", "|", "\t">>,
      <<"a", Surrogate>> }

BadSelections ==
    { <<>>, <<"x", "|", "0">>, <<"-", "1", "|">> }

\* What can arrive as the selector's value: nothing, one of the labels
\* offered, a label of an index just past the log, or text that is no label.
Selections(d) ==
    {None} \cup {Some(b) : b \in BadSelections}
    \cup {Some(d.choices[i]) : i \in 1..Len(d.choices)}
    \cup {Some(IntStr(Len(d.choices)) \o <<"|">>)}

MaxSubmits == 3

Next ==
    \/ \E t \in RawTexts, r \in Responses :
           clock <= MaxSubmits /\ Submit(t, Model6, r)
    \/ \E sel \in Selections(disp) : Select(sel)
    \/ Refresh

Spec == Init /\ [][Next]_vars

(***************************************************************************)
(* The same handlers on a long run: enough submits to fill the log and     *)
(* push records out of it, on few inputs.                                  *)
(***************************************************************************)

FillTexts == { <<"a">>, <<" ">> }

FillResponses ==
    { Failure("http_error"),
      Json([NoData EXCEPT !.converted_audio_url = Some(Url1)]) }

\* Nothing, the second and the last label offered, the labels of the two
\* indices around the capacity, and a negative index.
FillSelections(d) ==
    {None, Some(<<"-", "1", "|">>)}
    \cup {Some(d.choices[i]) : i \in {2, Len(d.choices)} \cap 1..Len(d.choices)}
    \cup {Some(IntStr(i) \o <<"|">>) : i \in {MAX_HISTORY - 1, MAX_HISTORY}}

MaxFill == 52

NextFill ==
    \/ \E t \in FillTexts, r \in FillResponses :
           clock <= MaxFill /\ Submit(t, Model6, r)
    \/ \E sel \in FillSelections(disp) : Select(sel)
    \/ Refresh

SpecFill == Init /\ [][NextFill]_vars

(***************************************************************************)
(* A long run once more, on records whose fields hold what json.dumps      *)
(* escapes (quote, backslash, newline) and what a label is cut at ("|"):   *)
(* every record is written and read again at each later append, until it   *)
(* is pushed out.                                                          *)
(***************************************************************************)

AgeTexts == { <<" ">>, <<"c", "|", "\"", " ", " ", "\\">> }

AgeResponses ==
    { Json([NoData EXCEPT !.audio_url = Some(Url2),
                          !.message = Some(<<"o", "\n", "k">>),
                          !.tailuo = Some(<<"t", "\"">>),
                          !.ipa = Some(<<"\\">>)]) }

\* Nothing, and the label of the oldest record.
AgeSelections(d) ==
    {None} \cup {Some(d.choices[i]) : i \in {Len(d.choices)} \cap 1..Len(d.choices)}

MaxAge == 52

NextAge ==
    \/ \E t \in AgeTexts, r \in AgeResponses :
           clock <= MaxAge /\ Submit(t, Model6, r)
    \/ \E sel \in AgeSelections(disp) : Select(sel)
    \/ Refresh

SpecAge == Init /\ [][NextAge]_vars

(***************************************************************************)
(* The store on its own: _save_history and _load_history on lists and      *)
(* documents of every kind.  Tamper is the world outside the program       *)
(* (another program, an editor, a failing disk) replacing the document.    *)
(***************************************************************************)

StoreTexts ==
    { <<"a", "\"">>, <<"\\", "n", "\n">>, <<Surrogate>> }

StoreEntry(text, url) ==
    [NoEntry EXCEPT !.text = text, !.model = Model6, !.audio_url = url,
                    !.time = IsoTime(0)]

StoreEntries == { StoreEntry(t, Url1) : t \in StoreTexts }

MaxStoreLen == 2

\* Every list of at most MaxStoreLen of these entries.
StoreLogs ==
    UNION { [1..n -> StoreEntries] : n \in 0..MaxStoreLen }

TamperDocs ==
    { AbsentDoc, EmptyFile,
      [kind |-> "unparseable", items |-> <<DumpEntry(StoreEntry(<<"a">>, Url1))>>],
      [kind |-> "other", items |-> <<>>],
      [kind |-> "unreadable", items |-> <<>>],
      ListDoc(<<DumpEntry(StoreEntry(<<"b">>, Url2))>>) }

Tamper(doc, dir) ==
    /\ pc = "idle"
    /\ doc.kind # "absent" => dir
    /\ fs' = [dir |-> dir, doc |-> doc]
    /\ departed' = departed \cup Left(fs, fs')
    /\ wiped' = TRUE
    /\ lastOp' = [NoOp EXCEPT !.op = "tamper", !.pre = fs.doc.kind]
    /\ UNCHANGED <<disp, clock, nAppend, pc, pending, pv>>

\* _save_history(entries), called on a list of its own.
StoreSave(entries) ==
    \E r \in {SaveHistory(fs, entries)} :
        /\ pc = "idle"
        /\ fs' = r.fs
        /\ departed' = departed \cup Left(fs, r.fs)
        /\ wiped' = TRUE
        /\ lastOp' = [NoOp EXCEPT !.op = "save", !.ok = ~r.raised,
                                  !.stage = IF ~CanOpen(Mkdir(fs)) THEN "open"
                                            ELSE IF r.raised THEN "encode"
                                            ELSE "done",
                                  !.pre = fs.doc.kind, !.arg = entries]
        /\ UNCHANGED <<disp, clock, nAppend, pc, pending, pv>>

StoreResponses ==
    { Json([NoData EXCEPT !.audio_url = Some(Url2)]) }

MaxStoreSubmits == 1

NextStore ==
    \/ \E doc \in TamperDocs, dir \in BOOLEAN : Tamper(doc, dir)
    \/ \E log \in StoreLogs : StoreSave(log)
    \/ \E t \in {<<"c">>}, r \in StoreResponses :
           clock <= MaxStoreSubmits /\ Submit(t, Model6, r)

SpecStore == Init /\ [][NextStore]_vars

(***************************************************************************)
(* handle_tts step by step.  write_text opens the file for writing, which  *)
(* empties it, then writes the text and closes; the listeners of the       *)
(* selector and of the refresh button are registered with queue=False      *)
(* (lines 237, 244) and run while a submit is in flight; the process can   *)
(* be stopped at any point and started again.                              *)
(***************************************************************************)

\* Lines 89-106, and the json.dumps of line 35: everything before the file
\* is touched.
StepBegin(rawText, model, resp) ==
    \E r \in {HandleTts(rawText, model, resp, fs, clock)} :
    \E fetched \in {FetchTts(resp)} :
    LET history == Prepend(r.entry, Log(fs))
    IN  /\ pc = "idle"
        /\ IF r.stage \in {"blank", "fetch", "load"}
           THEN /\ pc' = "idle"
                /\ pending' = NoPending
           ELSE /\ pc' = "open"
                /\ pending' = [history |-> history, old |-> Log(fs),
                               out |-> SubmitOutputs(fetched, history)]
        /\ clock' = IF r.stage \in {"blank", "fetch"} THEN clock ELSE clock + 1
        /\ lastOp' = [NoOp EXCEPT !.op = "submit", !.ok = FALSE,
                                  !.stage = IF r.stage \in {"blank", "fetch", "load"}
                                            THEN r.stage ELSE "open",
                                  !.pre = fs.doc.kind, !.resp = resp.kind,
                                  !.blank = (Strip(rawText) = <<>>),
                                  !.entry = r.entry]
        /\ UNCHANGED <<fs, departed, disp, nAppend, wiped, pv>>

\* Line 34 and the open of line 35.
StepOpen ==
    /\ pc = "open"
    /\ IF CanOpen(Mkdir(fs))
       THEN /\ fs' = OpenTruncate(Mkdir(fs))
            /\ pc' = "write"
            /\ UNCHANGED pending
       ELSE /\ fs' = Mkdir(fs)
            /\ pc' = "idle"
            /\ pending' = NoPending
    /\ departed' = departed \cup Left(fs, fs')
    /\ lastOp' = [lastOp EXCEPT !.stage = IF CanOpen(Mkdir(fs)) THEN "write" ELSE "save"]
    /\ UNCHANGED <<disp, clock, nAppend, wiped, pv>>

\* The write and the close of line 35: the text is encoded, or the write
\* raises and the file stays as the open left it.
StepWrite ==
    /\ pc = "write"
    /\ IF Utf8Encodable(Dumps(pending.history))
       THEN /\ fs' = WriteAll(fs, Dumps(pending.history))
            /\ pc' = "render"
            /\ lastOp' = [lastOp EXCEPT !.stage = "render"]
            /\ UNCHANGED <<pending, wiped>>
       ELSE /\ pc' = "idle"
            /\ lastOp' = [lastOp EXCEPT !.stage = "save", !.old = pending.old,
                                        !.arg = pending.history]
            /\ pending' = NoPending
            /\ wiped' = TRUE
            /\ UNCHANGED fs
    /\ departed' = departed \cup Left(fs, fs')
    /\ UNCHANGED <<disp, clock, nAppend, pv>>

\* Lines 109-119: the outputs reach the page.
StepRender ==
    /\ pc = "render"
    /\ disp' = AfterOutputs(disp.value, ApplyOutputs(disp, pending.out), fs)
    /\ pc' = "idle"
    /\ nAppend' = nAppend + 1
    /\ lastOp' = [lastOp EXCEPT !.ok = TRUE, !.stage = "done"]
    /\ pending' = NoPending
    /\ UNCHANGED <<fs, departed, clock, wiped, pv>>

\* The process is stopped while the file is open for writing, and started
\* again: the page is built anew from what is stored.
Interrupt ==
    /\ pc = "write"
    /\ pc' = "idle"
    /\ disp' = StartupPage(fs)
    /\ lastOp' = [NoOp EXCEPT !.op = "interrupt", !.ok = FALSE, !.stage = "save",
                              !.pre = fs.doc.kind, !.old = pending.old,
                              !.arg = pending.history]
    /\ pending' = NoPending
    /\ wiped' = TRUE
    /\ UNCHANGED <<fs, departed, clock, nAppend, pv>>

StepTexts == { <<"a">>, <<Surrogate>> }

StepSelections(d) ==
    {None} \cup {Some(d.choices[i]) : i \in {1} \cap 1..Len(d.choices)}

MaxStepSubmits == 3

NextSteps ==
    \/ \E t \in StepTexts, r \in FillResponses :
           clock <= MaxStepSubmits /\ StepBegin(t, Model6, r)
    \/ StepOpen
    \/ StepWrite
    \/ StepRender
    \/ Interrupt
    \/ \E sel \in StepSelections(disp) : Select(sel)
    \/ Refresh

SpecSteps == Init /\ [][NextSteps]_vars

(***************************************************************************)
(* _format_preview on its own: texts of two words with whitespace before,  *)
(* between and after them, and what the label and the row make of them.    *)
(***************************************************************************)

RECURSIVE Rep(_, _)
Rep(c, n) == IF n = 0 THEN <<>> ELSE <<c>> \o Rep(c, n - 1)

\* g whitespace characters: space, tab, newline, space, ...
Gap(g) == [i \in 1..g |-> <<" ", "\t", "\n">>[((i - 1) % 3) + 1]]

MaxWordA == 50
MaxWordB == 10
MaxGap == 3
MaxPad == 1

PreviewTexts ==
    { Gap(lead) \o Rep("x", a) \o Gap(g) \o Rep("y", b) \o Rep(" ", trail) :
        lead \in 0..MaxPad, a \in 0..MaxWordA, g \in 0..MaxGap,
        b \in 0..MaxWordB, trail \in 0..MaxPad }

InitPreview ==
    /\ fs = [dir |-> FALSE, doc |-> AbsentDoc]
    /\ disp = StartupPage(fs)
    /\ clock = 1
    /\ nAppend = 0
    /\ wiped = FALSE
    /\ departed = {}
    /\ lastOp = NoOp
    /\ pc = "idle"
    /\ pending = NoPending
    /\ pv \in {[NoPreview EXCEPT !.text = t] : t \in PreviewTexts}

\* The three places that render a text: _format_preview itself, the label of
\* _history_options and the row of _history_table for a record with the text.
RenderPreview ==
    /\ ~pv.done
    /\ pv' = [pv EXCEPT
                !.done = TRUE,
                !.preview = FormatPreview(pv.text, PREVIEW_LIMIT),
                !.label = HistoryOptions(<<StoreEntry(pv.text, Url1)>>)[1],
                !.row = HistoryTable(<<StoreEntry(pv.text, Url1)>>)[1]]
    /\ UNCHANGED <<fs, departed, disp, clock, nAppend, wiped, lastOp, pc, pending>>

NextPreview == RenderPreview

SpecPreview == InitPreview /\ [][NextPreview]_vars

(***************************************************************************)
(* The claims.                                                             *)
(***************************************************************************)

LastSubmitDone == lastOp.op = "submit" /\ lastOp.ok

\* C1 (capacity): from an absent log, after N successful appends and no
\* failed save, the log _load_history returns is a list of exactly
\* min(N, MAX_HISTORY) records; so it never holds more than MAX_HISTORY.
C1_Capacity ==
    /\ LoadHistory(fs).list
    /\ Len(Log(fs)) <= MAX_HISTORY
    /\ ~wiped => Len(Log(fs)) = Min(nAppend, MAX_HISTORY)

C1_Witness == ~wiped /\ nAppend > MAX_HISTORY /\ Len(Log(fs)) = MAX_HISTORY

\* C2 (newest first): right after a successful append the record just built
\* is the first of the stored log, and the first of the list handle_tts
\* returned its table and its choices from.
C2_NewestFirst ==
    LastSubmitDone =>
        /\ Log(fs) # <<>>
        /\ Log(fs)[1] = lastOp.entry
        /\ disp.table # <<>> /\ disp.table[1] = TableRow(lastOp.entry)
        /\ disp.choices # <<>> /\ disp.choices[1] = OptionLabel(0, lastOp.entry)
        /\ lastOp.entry.time = IsoTime(clock - 1)

C2_Witness == LastSubmitDone /\ Len(Log(fs)) = MAX_HISTORY - 1

\* C3 (eviction): a successful append on a log of length L leaves the new
\* record followed by the first min(L, MAX_HISTORY - 1) old records in their
\* order, each one place later; with L = MAX_HISTORY the one record that is
\* gone is the old last one, with L < MAX_HISTORY none is gone.
C3_Step ==
    (lastOp'.op = "submit" /\ lastOp'.ok) =>
        LET old  == Log(fs)
            new  == Log(fs')
            L    == Len(old)
            kept == Min(L, MAX_HISTORY - 1)
            gone == {old[i] : i \in 1..L} \ {new[j] : j \in 1..Len(new)}
        IN  /\ Len(new) = kept + 1
            /\ new[1] = lastOp'.entry
            /\ \A i \in 1..kept : new[i + 1] = old[i]
            /\ IF L = MAX_HISTORY THEN gone = {old[MAX_HISTORY]} ELSE gone = {}

C3_Eviction == [][C3_Step]_vars

C3_Witness == LastSubmitDone /\ nAppend = MAX_HISTORY + 1

\* C4 (round trip): after _save_history(log) on storage that can be opened,
\* _load_history returns log, whatever was stored before and whether or not
\* the directory was there.
C4_RoundTrip ==
    (lastOp.op = "save" /\ lastOp.stage # "open") =>
        LoadHistory(fs) = PyList(lastOp.arg)

InvalidKinds == {"absent", "unparseable", "unreadable", "other"}

\* C5 (corruption tolerance): whenever the document is absent, does not
\* parse, cannot be read or is not a list, _load_history returns the empty
\* list; and an append that follows (on storage that can be written) leaves
\* a log of one record.
C5_CorruptionTolerance ==
    /\ fs.doc.kind \in InvalidKinds => LoadHistory(fs) = PyList(<<>>)
    /\ ( /\ lastOp.op = "submit"
         /\ lastOp.pre \in InvalidKinds \ {"unreadable"}
         /\ lastOp.stage \notin {"blank", "fetch"} )
       => (lastOp.ok /\ Len(Log(fs)) = 1)

\* C6 (atomic save): while a save is under way, and after one that was cut
\* or that raised, _load_history returns the whole log of before or the
\* whole new log.
C6_AtomicSave ==
    /\ pc \in {"write", "render"} => Log(fs) \in {pending.old, pending.history}
    /\ (lastOp.op \in {"interrupt", "submit"} /\ lastOp.stage = "save")
       => Log(fs) \in {lastOp.old, lastOp.arg}

\* C7 (completeness): every stored record has an audio URL that is not empty
\* and a text that is not empty once stripped; a submit whose response has
\* neither URL field (absent or empty) raises in fetch_tts or before, and
\* builds no record.
C7_Complete ==
    /\ \A i \in 1..Len(Log(fs)) :
           Log(fs)[i].audio_url # <<>> /\ Strip(Log(fs)[i].text) # <<>>
    /\ (lastOp.op = "submit" /\ lastOp.resp = "json" /\ lastOp.nourl)
       => (~lastOp.ok /\ lastOp.stage \in {"blank", "fetch"}
           /\ lastOp.entry = NoEntry)

C7_Witness ==
    /\ lastOp.op = "submit" /\ lastOp.resp = "json" /\ lastOp.nourl
    /\ lastOp.stage = "fetch"
    /\ Len(Log(fs)) >= 1

IndexMargin == 2

\* C8 (lookup bounds): on the stored log, Lookup finds the record at idx
\* exactly when 0 <= idx < length and nothing otherwise (idx -1 and idx =
\* length included, and every idx on the empty log); load_history_item shows
\* the record found, and finds nothing otherwise.
C8_LookupBounds ==
    LET log == Log(fs)
        idx == ParseInt(BeforeBar(lastOp.sel.val))
    IN  /\ \A i \in (0 - Len(log) - IndexMargin)..(Len(log) + IndexMargin) :
               Lookup(log, i) =
                   IF 0 <= i /\ i < Len(log)
                   THEN [found |-> TRUE, entry |-> log[i + 1]]
                   ELSE [found |-> FALSE, entry |-> NoEntry]
        /\ (lastOp.op = "select" /\ Truthy(lastOp.sel) /\ idx.ok) =>
               /\ lastOp.ok <=> (0 <= idx.val /\ idx.val < Len(log))
               /\ lastOp.ok =>
                      /\ disp.audio = Some(log[idx.val + 1].audio_url)
                      /\ disp.message = Some(log[idx.val + 1].message)
                      /\ disp.tailuo = Some(log[idx.val + 1].tailuo)
                      /\ disp.ipa = Some(log[idx.val + 1].ipa)
               /\ ~lastOp.ok => disp.audio = None

C8_Witness ==
    /\ lastOp.op = "select" /\ ~lastOp.ok /\ Truthy(lastOp.sel)
    /\ Len(Log(fs)) >= 2 /\ lastOp.idx = Len(Log(fs))

FailedSelect == lastOp'.op = "select" /\ ~lastOp'.ok /\ lastOp'.stage = "done"

\* C9 as stated: a failed selection leaves the audio output, the status
\* message, the annotations and the selection as they were shown.
C9_FailedLookupKeepsDisplay ==
    [][FailedSelect =>
          /\ disp'.audio = disp.audio
          /\ disp'.message = disp.message
          /\ disp'.tailuo = disp.tailuo
          /\ disp'.ipa = disp.ipa
          /\ disp'.value = disp.value]_vars

\* C9 as amended: a failed selection (nothing selected, no index to parse, or
\* an index out of range) raises nothing and leaves the status message, the
\* annotations, the choices and the stored log as they were; the audio output
\* and the selection are emptied.
C9_FailedLookupKeepsTexts ==
    [][FailedSelect =>
          /\ disp'.message = disp.message
          /\ disp'.tailuo = disp.tailuo
          /\ disp'.ipa = disp.ipa
          /\ disp'.choices = disp.choices
          /\ disp'.audio = None
          /\ disp'.value = None
          /\ fs' = fs]_vars

C9_Witness ==
    /\ lastOp.op = "select" /\ ~lastOp.ok /\ lastOp.stage = "done"
    /\ Truthy(lastOp.sel)
    /\ disp.message # None /\ disp.audio = None

\* The text with its whitespace collapsed, character by character: a
\* character that is not whitespace stays; a whitespace character becomes
\* one space if it follows a character that is not whitespace and such a
\* character comes after it, and goes otherwise.
RECURSIVE CollapsedFrom(_, _)
CollapsedFrom(s, i) ==
    IF i > Len(s) THEN <<>>
    ELSE IF s[i] \notin Whitespace THEN <<s[i]>> \o CollapsedFrom(s, i + 1)
    ELSE IF /\ i > 1 /\ s[i - 1] \notin Whitespace
            /\ \E j \in (i + 1)..Len(s) : s[j] \notin Whitespace
         THEN <<" ">> \o CollapsedFrom(s, i + 1)
         ELSE CollapsedFrom(s, i + 1)

Collapsed(s) == CollapsedFrom(s, 1)

EndsWith(s, t) ==
    Len(t) <= Len(s) /\ SubSeq(s, Len(s) - Len(t) + 1, Len(s)) = t

\* C10 (preview): the preview of a text is its collapsed text when that has
\* at most 48 characters; otherwise it has exactly 48 characters, the first
\* 45 of the collapsed text and then three dots.  No preview is longer than
\* 48, and the label and the table row of a record carry this preview.
C10_Preview ==
    pv.done =>
        LET c == Collapsed(pv.text)
        IN  /\ IF Len(c) <= 48
               THEN pv.preview = c
               ELSE /\ Len(pv.preview) = 48
                    /\ SubSeq(pv.preview, 1, 45) = SubSeq(c, 1, 45)
                    /\ SubSeq(pv.preview, 46, 48) = <<".", ".", ".">>
            /\ Len(pv.preview) <= 48
            /\ pv.row.text = pv.preview
            /\ EndsWith(pv.label, <<" ", MiddleDot, " ">> \o pv.preview)

C10_Witness ==
    /\ pv.done
    /\ Len(pv.text) > Len(Collapsed(pv.text))
    /\ Len(Collapsed(pv.text)) = 49
    /\ pv.preview[45] = " "

\* The indices a label is rendered with here: one digit, two digits, the last
\* index of a full log.
LabelIndices == {0, 9, 10, MAX_HISTORY - 1}

\* C11 (summaries and lookup): _history_options and _history_table of the
\* stored log have one item per record, in the log's order; the i-th label
\* (counting from 0) parses back to the index i, whatever the record's text
\* holds (a "|" included), and Lookup of that index is the record the label
\* was rendered from; a selection of a label of the stored log shows that
\* record.
C11_SummariesResolve ==
    LET log     == Log(fs)
        options == HistoryOptions(log)
        table   == HistoryTable(log)
    IN  /\ Len(options) = Len(log)
        /\ Len(table) = Len(log)
        /\ \A i \in 1..Len(log) :
               /\ table[i] = TableRow(log[i])
               /\ options[i] = OptionLabel(i - 1, log[i])
               /\ ParseInt(BeforeBar(options[i])) = [ok |-> TRUE, val |-> i - 1]
               /\ Lookup(log, ParseInt(BeforeBar(options[i])).val)
                      = [found |-> TRUE, entry |-> log[i]]
               /\ \A idx \in LabelIndices :
                      ParseInt(BeforeBar(OptionLabel(idx, log[i])))
                          = [ok |-> TRUE, val |-> idx]
               /\ (lastOp.op = "select" /\ lastOp.sel = Some(options[i])) =>
                      /\ lastOp.ok
                      /\ lastOp.idx = i - 1
                      /\ disp.audio = Some(log[i].audio_url)
                      /\ disp.message = Some(log[i].message)
                      /\ disp.tailuo = Some(log[i].tailuo)
                      /\ disp.ipa = Some(log[i].ipa)
                      /\ disp.value = lastOp.sel

C11_Witness ==
    /\ lastOp.op = "select" /\ lastOp.ok /\ lastOp.idx = 1
    /\ Len(Log(fs)) >= 3
    /\ lastOp.sel = Some(HistoryOptions(Log(fs))[2])
    /\ \E k \in 1..Len(Log(fs)[2].text) : Log(fs)[2].text[k] = "|"

\* C12 (read-only operations): a selection, found or not, and a refresh leave
\* the storage (directory and document, so the log _load_history returns) as
\* it was; the storage changes only in a submit that came as far as
\* _save_history.
C12_Step ==
    /\ lastOp'.op \in {"select", "refresh"} => fs' = fs
    /\ fs' # fs => lastOp'.op = "submit" /\ lastOp'.stage \in {"save", "done"}
    /\ Log(fs') # Log(fs) => lastOp'.op = "submit" /\ lastOp'.stage \in {"save", "done"}

C12_ReadOnly == [][C12_Step]_vars

C12_Witness ==
    /\ lastOp.op = "select" /\ ~lastOp.ok
    /\ disp.value = None /\ disp.audio = None
    /\ Len(Log(fs)) >= 2
    /\ Len(disp.table) = Len(Log(fs))

\* C13 (no overlapping access): no handler runs between the start of a
\* submit's load-prepend-save and its end, so a selection or a refresh finds
\* no submit in flight; and while no save has failed or been cut, every
\* record appended is in the log up to the capacity.
C13_NoOverlap ==
    /\ lastOp.op \in {"select", "refresh"} => pc = "idle"
    /\ (pc = "idle" /\ ~wiped) => Len(Log(fs)) = Min(nAppend, MAX_HISTORY)

\* C14 (failed submit): a submit whose text is empty once stripped, whose
\* synthesis call fails (HTTP error, connection error, a body that is not
\* JSON or not an object) or whose response has no audio URL raises before
\* _load_history: it reads no clock and builds no record, and storage, log
\* and page are after it what they were before it.
C14_Step ==
    ( /\ lastOp'.op = "submit"
      /\ (lastOp'.blank \/ lastOp'.resp # "json" \/ lastOp'.nourl) )
    => /\ ~lastOp'.ok
       /\ lastOp'.stage \in {"blank", "fetch"}
       /\ lastOp'.entry = NoEntry
       /\ fs' = fs
       /\ LoadHistory(fs') = LoadHistory(fs)
       /\ clock' = clock
       /\ nAppend' = nAppend
       /\ disp' = disp

C14_FailedSubmit == [][C14_Step]_vars

C14_Witness ==
    /\ lastOp.op = "submit" /\ ~lastOp.ok
    /\ ~lastOp.blank /\ lastOp.resp = "not_json"
    /\ Len(Log(fs)) >= 2
    /\ disp.audio # None

\* The creation times of the records of a list: a record is known by its
\* creation time, which the clock gives to one record only.
Times(entries) == {entries[i].time : i \in 1..Len(entries)}

\* What a step makes of the log old: the log new.
C15_Kept(old, new, appended, dep) ==
    \* no two records of a log have one creation time
    /\ \A i, j \in 1..Len(new) : new[i].time = new[j].time => i = j
    \* a record that stays has every field as it was, and is not nearer to
    \* the head than it was
    /\ \A i \in 1..Len(old) : \A j \in 1..Len(new) :
           new[j].time = old[i].time => new[j] = old[i] /\ j >= i
    \* the records that stay are in the order they were in
    /\ SelectSeq(new, LAMBDA r : r.time \in Times(old))
           = SelectSeq(old, LAMBDA r : r.time \in Times(new))
    \* a record that was not there is the one this submit appended
    /\ \A j \in 1..Len(new) :
           new[j].time \notin Times(old) => appended /\ new[j] = lastOp'.entry
    \* no record that left the log, at this step or before, is in it
    /\ \A j \in 1..Len(new) : new[j] \notin dep

\* C15 (records do not change): over every step, a record that stays in the
\* log keeps all its fields (its time included) and its place relative to
\* the other records, its index does not decrease, a record enters the log
\* only by being appended, and a record that has left the log (pushed out at
\* the capacity, or otherwise) is never in the log again.
C15_Step ==
    fs' # fs =>
        \A old \in {Log(fs)} : \A new \in {Log(fs')} :
            C15_Kept(old, new, lastOp'.op = "submit" /\ lastOp'.ok, departed')

C15_Immutable == [][C15_Step]_vars

\* A record has been pushed out, and the oldest record left has been
\* written and read at every append since its own.
C15_Witness ==
    /\ LastSubmitDone
    /\ nAppend = MAX_HISTORY + 2
    /\ Cardinality(departed) = 2
    /\ Len(Log(fs)) = MAX_HISTORY
    /\ Log(fs)[MAX_HISTORY].time = IsoTime(3)
    /\ Log(fs)[MAX_HISTORY].tailuo = <<"t", "\"">>

\* C16 (display consistency): after every handler that has run to its end
\* (and at startup) the table shown is _history_table of the stored log and
\* the choices offered are _history_options of the stored log; after a
\* successful submit the selector's value is the label of the record just
\* appended.
C16_DisplayConsistent ==
    /\ disp.table = HistoryTable(Log(fs))
    /\ disp.choices = HistoryOptions(Log(fs))
    /\ LastSubmitDone => disp.value = Some(OptionLabel(0, lastOp.entry))

====
